---- MODULE Spec2Model ----
(***************************************************************************)
(* The aggregation-and-flush engine of go-bucky-client (src/client.go,     *)
(* the channel-based Client of lines 302-637).                             *)
(*                                                                         *)
(* Tasks of the program:                                                   *)
(*   - one goroutine per producer call (Count/Timer/AverageTimer start     *)
(*     `go c.send(...)`), which parks on the unbuffered channel c.input;    *)
(*   - the aggregator goroutine inputProcessor;                            *)
(*   - the scheduler goroutine started by sender();                        *)
(*   - the application thread that calls Stop().                           *)
(* A Go channel hands values over in the order the senders parked (sendq), *)
(* a select with a default case receives only from a parked sender, and a  *)
(* nil pointer dereference panics, which ends the whole process.           *)
(***************************************************************************)
EXTENDS Integers, Sequences, FiniteSets, TLC

\* ---------------------------------------------------------------- bounds
MaxCalls == 2      \* producer calls made in one run
MaxAmount == 4     \* amounts are drawn from {1, MaxAmount}
MaxMerges == 3     \* events merged in one run of the sequential specification
MaxInterval == 120 \* NewClient is called with every interval of 0..MaxInterval seconds

Names == {"x"}
Amounts == {1, MaxAmount}

\* HTTP status codes the transport may answer with (1xx, 2xx, 3xx).
StatusCodes == {101, 200, 299, 300}

\* ------------------------------------------------------------ data model
\* A Go pointer is a sequence of length 0 (nil) or 1 (the pointee).
NilPtr == <<>>
Ptr(v) == <<v>>
Deref(p) == p[1]

\* type Metric struct { name, unit }
Metric(name, unit) == <<name, unit>>

\* The keys Count, Timer and AverageTimer can create.
Keys == {Metric(name, unit) : name \in Names, unit \in {"c", "ms"}}

\* type Sum struct { Value int }
Sum(value) == [Value |-> value]

\* type Average struct { Count, Total, Avg int }
Average(count, total, avg) == [Count |-> count, Total |-> total, Avg |-> avg]

\* type Value struct { Avg *Average; Sum *Sum }
Value(avg, sum) == [Avg |-> avg, Sum |-> sum]

\* type MetricWithAmount struct { Metric; Amount; Action }
MetricWithAmount(m, amount, action) ==
    [Metric |-> m, Amount |-> amount, Action |-> action]

\* Go's integer division truncates toward zero.
GoDiv(a, b) ==
    IF b = 0 THEN 0
    ELSE IF (a >= 0) = (b > 0)
         THEN (IF a >= 0 THEN a ELSE -a) \div (IF b > 0 THEN b ELSE -b)
         ELSE -((IF a >= 0 THEN a ELSE -a) \div (IF b > 0 THEN b ELSE -b))

\* strconv.AppendInt(nil, n, 10): the decimal text of n, one character per element.
Digit(d) == CASE d = 0 -> "0" [] d = 1 -> "1" [] d = 2 -> "2" [] d = 3 -> "3"
              [] d = 4 -> "4" [] d = 5 -> "5" [] d = 6 -> "6" [] d = 7 -> "7"
              [] d = 8 -> "8" [] OTHER -> "9"

RECURSIVE Digits(_)
Digits(n) == IF n < 10 THEN <<Digit(n)>> ELSE Append(Digits(n \div 10), Digit(n % 10))

AppendInt(n) == IF n < 0 THEN <<"-">> \o Digits(-n) ELSE Digits(n)

\* make(map[Metric]Value)
EmptyMap == [k \in {} |-> Value(NilPtr, NilPtr)]

\* A faulty Reset: only the Sum entries are deleted.
ResetKeepsAverages(tbl) == [k \in {j \in DOMAIN tbl : tbl[j].Avg # NilPtr} |-> tbl[k]]

\* A faulty Reset: the table is left as it is.
ResetKeepsAll(tbl) == tbl

\* Reset(): delete every key of the table.
Reset(tbl) == [k \in {} |-> tbl[k]]

\* send(): the event a producer call's goroutine puts on c.input.
send(name, value, unit, action) == MetricWithAmount(Metric(name, unit), value, action)

\* A faulty SumMerge: the new amount overwrites the running total.
SumMergeOverwrites(old, amount) == Sum(amount)

\* The "sum" case of handleMetricWithValue on an existing Sum.
SumMerge(old, amount) == Sum(amount + old.Value)

\* A faulty AvgMerge: Total is recomputed from the truncated average.
AvgMergeTotalFromAvg(old, amount) ==
    LET newCount == old.Count + 1
        avgResult == GoDiv(old.Avg * old.Count + amount, newCount)
    IN  Average(newCount, avgResult * newCount, avgResult)

\* The "avg" case of handleMetricWithValue on an existing (or zero) Average.
AvgMerge(old, amount) ==
    LET newCount == old.Count + 1
        avgResult == GoDiv(old.Avg * old.Count + amount, newCount)
    IN  Average(newCount, old.Total + amount, avgResult)

\* A faulty handleMetricWithValue: the entry is looked up by the name alone.
handleMetricWithValueByName(tbl, metric) ==
    LET same == {j \in DOMAIN tbl : j[1] = metric.Metric[1]}
        k == IF same # {} THEN CHOOSE j \in same : TRUE ELSE metric.Metric
        found == k \in DOMAIN tbl
    IN  CASE metric.Action = "sum" ->
               IF found
               THEN IF tbl[k].Sum = NilPtr
                    THEN [panic |-> TRUE, metrics |-> tbl]
                    ELSE [panic |-> FALSE,
                          metrics |-> [tbl EXCEPT ![k].Sum =
                                          Ptr(SumMerge(Deref(tbl[k].Sum), metric.Amount))]]
               ELSE [panic |-> FALSE,
                     metrics |-> (k :> Value(NilPtr, Ptr(Sum(metric.Amount)))) @@ tbl]
          [] metric.Action = "avg" ->
               IF found
               THEN IF tbl[k].Avg = NilPtr
                    THEN [panic |-> TRUE, metrics |-> tbl]
                    ELSE [panic |-> FALSE,
                          metrics |-> [tbl EXCEPT ![k].Avg =
                                          Ptr(AvgMerge(Deref(tbl[k].Avg), metric.Amount))]]
               ELSE [panic |-> FALSE,
                     metrics |-> (k :> Value(Ptr(AvgMerge(Average(0, 0, 0), metric.Amount)),
                                             NilPtr)) @@ tbl]
          [] OTHER -> [panic |-> FALSE, metrics |-> tbl]

\* handleMetricWithValue between Lock and the deferred Unlock: the table after the
\* merge, or a panic when the entry found holds a nil pointer for the event's kind.
handleMetricWithValue(tbl, metric) ==
    LET k == metric.Metric
        found == k \in DOMAIN tbl
    IN  CASE metric.Action = "sum" ->
               IF found
               THEN IF tbl[k].Sum = NilPtr
                    THEN [panic |-> TRUE, metrics |-> tbl]
                    ELSE [panic |-> FALSE,
                          metrics |-> [tbl EXCEPT ![k].Sum =
                                          Ptr(SumMerge(Deref(tbl[k].Sum), metric.Amount))]]
               ELSE [panic |-> FALSE,
                     metrics |-> (k :> Value(NilPtr, Ptr(Sum(metric.Amount)))) @@ tbl]
          [] metric.Action = "avg" ->
               IF found
               THEN IF tbl[k].Avg = NilPtr
                    THEN [panic |-> TRUE, metrics |-> tbl]
                    ELSE [panic |-> FALSE,
                          metrics |-> [tbl EXCEPT ![k].Avg =
                                          Ptr(AvgMerge(Deref(tbl[k].Avg), metric.Amount))]]
               ELSE [panic |-> FALSE,
                     metrics |-> (k :> Value(Ptr(AvgMerge(Average(0, 0, 0), metric.Amount)),
                                             NilPtr)) @@ tbl]
          [] OTHER -> [panic |-> FALSE, metrics |-> tbl]

\* A faulty FormatLine: an Average entry is written with its Total.
FormatLineTotal(k, v) ==
    <<k[1], ":">>
    \o (IF v.Avg # NilPtr THEN AppendInt(Deref(v.Avg).Total)
        ELSE IF v.Sum # NilPtr THEN AppendInt(Deref(v.Sum).Value)
        ELSE <<>>)
    \o <<"|", k[2], "\n">>

\* formatMetricsForFlush, the body of its loop: what one entry writes into the
\* buffer. A name and a unit are one element each, a digit is one element.
FormatLine(k, v) ==
    <<k[1], ":">>
    \o (IF v.Avg # NilPtr THEN AppendInt(Deref(v.Avg).Avg)
        ELSE IF v.Sum # NilPtr THEN AppendInt(Deref(v.Sum).Value)
        ELSE <<>>)
    \o <<"|", k[2], "\n">>

\* `for k, v := range c.metrics`: the orders in which Go may walk the table.
RangeOrders(tbl) ==
    {o \in [1..Cardinality(DOMAIN tbl) -> DOMAIN tbl] :
        \A i, j \in 1..Cardinality(DOMAIN tbl) : i # j => o[i] # o[j]}

\* formatMetricsForFlush: the buffer after the entries were written in the given order.
RECURSIVE formatMetricsForFlush(_, _)
formatMetricsForFlush(tbl, order) ==
    IF order = <<>> THEN <<>>
    ELSE FormatLine(Head(order), tbl[Head(order)]) \o formatMetricsForFlush(tbl, Tail(order))

\* ------------------------------------------------------------ NewClient
\* A Go int (64 bits) is kept as two limbs, hi * Base + lo with 0 <= lo < Base, so
\* that intervals beyond what time.Duration holds can be written down.
Base == 10 ^ 8
Big(hi, lo) == [hi |-> hi, lo |-> lo]
Less(a, b) == a.hi < b.hi \/ (a.hi = b.hi /\ a.lo < b.lo)

\* NewClient: "We should never send more often than once per minute".
MinInterval == 60

\* A faulty IntervalFloor: the interval is taken as given.
IntervalKept(n) == n

\* NewClient: if interval < 60 { interval = 60 }
IntervalFloor(n) == IF Less(n, Big(0, MinInterval)) THEN Big(0, MinInterval) ELSE n

\* The decimal digits of lo as the low limb: padded with zeros to 8 digits.
RECURSIVE Pad(_, _)
Pad(ds, width) == IF Len(ds) >= width THEN ds ELSE Pad(<<"0">> \o ds, width)

\* fmt.Sprintf("%ds", interval), for the intervals NewClient formats (60 or more).
SprintfSeconds(n) ==
    (IF n.hi = 0 THEN Digits(n.lo) ELSE Digits(n.hi) \o Pad(Digits(n.lo), 8)) \o <<"s">>

DigitValue(c) == CHOOSE d \in 0..9 : Digit(d) = c

\* time.ParseDuration's leadingInt: the number the leading digits spell.
RECURSIVE LeadingInt(_, _)
LeadingInt(str, acc) ==
    IF str = <<>> \/ Head(str) \notin {Digit(d) : d \in 0..9}
    THEN [value |-> acc, rest |-> str]
    ELSE LET t == acc.lo * 10 + DigitValue(Head(str))
         IN  LeadingInt(Tail(str), Big(acc.hi * 10 + t \div Base, t % Base))

\* The most seconds a time.Duration holds: (1<<63) / 1e9 = 9223372036.
MaxDurationSeconds == Big(92, 23372036)

\* A faulty ParseDuration: seconds beyond what a time.Duration holds are let through.
ParseDurationUnchecked(str) ==
    LET n == LeadingInt(str, Big(0, 0))
    IN  IF n.rest # <<"s">> THEN [err |-> TRUE, d |-> Big(0, 0)]
        ELSE [err |-> FALSE, d |-> n.value]

\* time.ParseDuration of digits followed by the unit "s": the duration (here in
\* seconds), or an error for an unknown unit or when the nanoseconds overflow int64.
ParseDuration(str) ==
    LET n == LeadingInt(str, Big(0, 0))
    IN  IF n.rest # <<"s">> THEN [err |-> TRUE, d |-> Big(0, 0)]
        ELSE IF Less(MaxDurationSeconds, n.value) THEN [err |-> TRUE, d |-> Big(0, 0)]
        ELSE [err |-> FALSE, d |-> n.value]

\* The interval arguments NewClient is called with: 0..MaxInterval, a negative one
\* (-1), the last one that fits a time.Duration, the first one that does not, and
\* 1<<48 (as client_test.go does).
IntervalArgs ==
    {Big(0, n) : n \in 0..MaxInterval}
    \cup {Big(-1, Base - 1), MaxDurationSeconds, Big(92, 23372037), Big(2814749, 76710656)}

VARIABLES
    calls,        \* the producer calls made so far, in call order: event + goroutine state
    sendq,        \* c.input: the send goroutines parked on the channel, in order
    metrics,      \* c.metrics: Metric -> Value
    mtx,          \* c.m: "free", or the task that holds it
    aggPc,        \* inputProcessor: "recv" | "lock" | "crit"
    aggCur,       \* the call whose event inputProcessor holds (0: none)
    schedPc,      \* scheduler goroutine position
    schedMode,    \* which select case it is in: "none" | "tick" | "stop"
    schedCur,     \* the call whose event flushInputChannel holds (0: none)
    buf,          \* the payload serialized by the flush in progress
    resp,         \* the transport's answer to the flush in progress
    flushErr,     \* what flush() returns, while it is returning
    posts,        \* transport calls made by the flush in progress
    stopChan,     \* number of values in c.stop (capacity 1)
    stoppedChan,  \* number of values in c.stopped (capacity 1)
    stopPc,       \* the Stop() caller: "idle" | "waiting"
    stopLog,      \* stages the scheduler completed for the stop it last received
    crashed,      \* the process ended by an unrecovered panic
    snapTotal,    \* per key, the Sum values of all snapshots taken so far, added up
    cl,           \* what NewClient returned: "nil" or "client"
    interval,     \* c.interval, in whole seconds (two limbs)
    newErr,       \* whether NewClient returned an error
    newArg,       \* the interval argument NewClient was called with
    lastOp,       \* the method last called directly on the client ("none": none)
    pool          \* c.bufferPool: the contents of the buffers it holds (followed by
                  \* the direct calls of flush; the scheduler's flush keeps buf only)

\* What NewClient leaves behind: no task changes it.
ctor == <<cl, interval, newErr, newArg, pool>>

vars == <<calls, sendq, metrics, mtx, aggPc, aggCur, schedPc, schedMode, schedCur,
          buf, resp, flushErr, posts, stopChan, stoppedChan,
          stopPc, stopLog, crashed, snapTotal, ctor, lastOp>>

\* ------------------------------------------------------------ results
NoErr == [kind |-> "nil", code |-> 0]
ErrNoMetrics == [kind |-> "ErrNoMetrics", code |-> 0]
ErrTransport == [kind |-> "transport", code |-> 0]
ErrStatus(code) == [kind |-> "status", code |-> code]
NoResult == [kind |-> "none", code |-> 0]

NoResp == [err |-> FALSE, code |-> 0]
Outcomes == {[err |-> TRUE, code |-> 0]} \cup {[err |-> FALSE, code |-> s] : s \in StatusCodes}

Init ==
    /\ calls = <<>>
    /\ sendq = <<>>
    /\ metrics = EmptyMap
    /\ mtx = "free"
    /\ aggPc = "recv"
    /\ aggCur = 0
    /\ schedPc = "select"
    /\ schedMode = "none"
    /\ schedCur = 0
    /\ buf = <<>>
    /\ resp = NoResp
    /\ flushErr = NoResult
    /\ posts = 0
    /\ stopChan = 0
    /\ stoppedChan = 0
    /\ stopPc = "idle"
    /\ stopLog = <<>>
    /\ crashed = FALSE
    /\ snapTotal = [k \in Keys |-> 0]
    /\ cl = "client"
    /\ interval = Big(0, MinInterval)
    /\ newErr = FALSE
    /\ newArg = Big(0, 1)
    /\ lastOp = "none"
    /\ pool = {}

\* The program before NewClient is called: no client, no goroutine.
InitNew ==
    /\ calls = <<>>
    /\ sendq = <<>>
    /\ metrics = EmptyMap
    /\ mtx = "free"
    /\ aggPc = "off"
    /\ aggCur = 0
    /\ schedPc = "off"
    /\ schedMode = "none"
    /\ schedCur = 0
    /\ buf = <<>>
    /\ resp = NoResp
    /\ flushErr = NoResult
    /\ posts = 0
    /\ stopChan = 0
    /\ stoppedChan = 0
    /\ stopPc = "idle"
    /\ stopLog = <<>>
    /\ crashed = FALSE
    /\ snapTotal = [k \in Keys |-> 0]
    /\ cl = "nil"
    /\ interval = Big(0, 0)
    /\ newErr = FALSE
    /\ newArg = Big(0, 0)
    /\ lastOp = "none"
    /\ pool = {}

\* NewClient(host, interval): the floor, Sprintf, ParseDuration; on an error
\* `return nil, err`, else the Client is built, cl.sender() and
\* `go cl.inputProcessor()` start the two goroutines, and `return cl, nil`.
NewClient ==
    /\ lastOp = "none"
    /\ \E arg \in IntervalArgs :
          LET intDur == ParseDuration(SprintfSeconds(IntervalFloor(arg)))
          IN  /\ newArg' = arg
              /\ newErr' = intDur.err
              /\ IF intDur.err
                 THEN UNCHANGED <<cl, interval, schedPc, aggPc>>
                 ELSE /\ cl' = "client"
                      /\ interval' = intDur.d
                      /\ schedPc' = "select"
                      /\ aggPc' = "recv"
    /\ lastOp' = "NewClient"
    /\ UNCHANGED <<calls, sendq, metrics, mtx, aggCur, schedMode, schedCur,
                   buf, resp, flushErr, posts, stopChan, stoppedChan,
                   stopPc, stopLog, crashed, snapTotal, pool>>

SpecNew == InitNew /\ [][NewClient]_vars

\* ------------------------------------------------------------ producers
\* A call as the model keeps it: the event of send(), the state of its goroutine
\* ("spawned": started by `go`, not yet at the channel; "sending": parked on c.input;
\* "taken": received, not yet merged; "merged": in the table; "flushed": in a
\* snapshot), and whether the call returned before the Stop() call now in progress began.
NewCall(api, name, value, ev) ==
    [api |-> api, name |-> name, value |-> value, ev |-> ev, st |-> "spawned", pre |-> FALSE]

\* A faulty Spawn: the call itself hands the event over, so it waits for the table
\* lock to be free, for the transport to have answered and for the aggregator to receive.
SpawnInCaller(api, name, value, ev) ==
    /\ ~crashed
    /\ Len(calls) < MaxCalls
    /\ mtx = "free"
    /\ schedPc # "post"
    /\ aggPc = "recv"
    /\ calls' = Append(calls, NewCall(api, name, value, ev))
    /\ UNCHANGED <<sendq, metrics, mtx, aggPc, aggCur, schedPc, schedMode, schedCur,
                   buf, resp, flushErr, posts, stopChan, stoppedChan,
                   stopPc, stopLog, crashed>>
    /\ UNCHANGED <<snapTotal, ctor, lastOp>>

\* The `go` statement of Count, Timer and AverageTimer: the call starts a goroutine
\* for send() and returns.
Spawn(api, name, value, ev) ==
    /\ ~crashed
    /\ Len(calls) < MaxCalls
    /\ calls' = Append(calls, NewCall(api, name, value, ev))
    /\ UNCHANGED <<sendq, metrics, mtx, aggPc, aggCur, schedPc, schedMode, schedCur,
                   buf, resp, flushErr, posts, stopChan, stoppedChan,
                   stopPc, stopLog, crashed>>
    /\ UNCHANGED <<snapTotal, ctor, lastOp>>

\* Count: go c.send(name, value, "c", "sum")
Count ==
    \E name \in Names, value \in Amounts :
        Spawn("Count", name, value, send(name, value, "c", "sum"))

\* A faulty Timer: the event is tagged as a counter.
TimerAsCount ==
    \E name \in Names, value \in Amounts :
        Spawn("Timer", name, value, send(name, value, "c", "sum"))

\* Timer: go c.send(name, value, "ms", "sum")
Timer ==
    \E name \in Names, value \in Amounts :
        Spawn("Timer", name, value, send(name, value, "ms", "sum"))

\* AverageTimer: go c.send(name, value, "ms", "avg")
AverageTimer ==
    \E name \in Names, value \in Amounts :
        Spawn("AverageTimer", name, value, send(name, value, "ms", "avg"))

\* The goroutine of a call reaches `c.input <- ...` and parks on the channel.
SendPark ==
    /\ ~crashed
    /\ \E i \in 1..Len(calls) :
          /\ calls[i].st = "spawned"
          /\ calls' = [calls EXCEPT ![i].st = "sending"]
          /\ sendq' = Append(sendq, i)
    /\ UNCHANGED <<metrics, mtx, aggPc, aggCur, schedPc, schedMode, schedCur,
                   buf, resp, flushErr, posts, stopChan, stoppedChan,
                   stopPc, stopLog, crashed>>
    /\ UNCHANGED <<snapTotal, ctor, lastOp>>

\* ------------------------------------------------------------ aggregator
\* A faulty AggRecv: the event is received but its sender stays on the channel.
AggRecvLeavesSender ==
    /\ ~crashed
    /\ aggPc = "recv"
    /\ sendq # <<>>
    /\ aggCur' = Head(sendq)
    /\ calls' = [calls EXCEPT ![Head(sendq)].st = "taken"]
    /\ aggPc' = "lock"
    /\ UNCHANGED <<sendq, metrics, mtx, schedPc, schedMode, schedCur,
                   buf, resp, flushErr, posts, stopChan, stoppedChan,
                   stopPc, stopLog, crashed>>
    /\ UNCHANGED <<snapTotal, ctor, lastOp>>

\* inputProcessor: `for metric := range c.input` receives from the first parked sender.
AggRecv ==
    /\ ~crashed
    /\ aggPc = "recv"
    /\ sendq # <<>>
    /\ aggCur' = Head(sendq)
    /\ sendq' = Tail(sendq)
    /\ calls' = [calls EXCEPT ![Head(sendq)].st = "taken"]
    /\ aggPc' = "lock"
    /\ UNCHANGED <<metrics, mtx, schedPc, schedMode, schedCur,
                   buf, resp, flushErr, posts, stopChan, stoppedChan,
                   stopPc, stopLog, crashed>>
    /\ UNCHANGED <<snapTotal, ctor, lastOp>>

\* handleMetricWithValue: c.m.Lock()
AggLock ==
    /\ ~crashed
    /\ aggPc = "lock"
    /\ mtx = "free"
    /\ mtx' = "agg"
    /\ aggPc' = "crit"
    /\ UNCHANGED <<calls, sendq, metrics, aggCur, schedPc, schedMode, schedCur,
                   buf, resp, flushErr, posts, stopChan, stoppedChan,
                   stopPc, stopLog, crashed>>
    /\ UNCHANGED <<snapTotal, ctor, lastOp>>

\* handleMetricWithValue: the switch and the deferred Unlock, or the panic.
AggMerge ==
    /\ ~crashed
    /\ aggPc = "crit"
    /\ LET r == handleMetricWithValue(metrics, calls[aggCur].ev)
       IN  IF r.panic
           THEN /\ crashed' = TRUE
                /\ UNCHANGED <<calls, metrics, mtx, aggPc, aggCur>>
           ELSE /\ metrics' = r.metrics
                /\ calls' = [calls EXCEPT ![aggCur].st = "merged"]
                /\ mtx' = "free"
                /\ aggPc' = "recv"
                /\ aggCur' = 0
                /\ UNCHANGED crashed
    /\ UNCHANGED <<sendq, schedPc, schedMode, schedCur,
                   buf, resp, flushErr, posts, stopChan, stoppedChan,
                   stopPc, stopLog>>
    /\ UNCHANGED <<snapTotal, ctor, lastOp>>

\* ------------------------------------------------------------ scheduler
\* sender: case <-time.After(c.interval). The timer may have fired whenever the
\* select is evaluated, also with a stop request pending (select then picks either).
SchedTick ==
    /\ ~crashed
    /\ schedPc = "select"
    /\ schedMode' = "tick"
    /\ schedPc' = "flushLock"
    /\ UNCHANGED <<calls, sendq, metrics, mtx, aggPc, aggCur, schedCur,
                   buf, resp, flushErr, posts, stopChan, stoppedChan,
                   stopPc, stopLog, crashed>>
    /\ UNCHANGED <<snapTotal, ctor, lastOp>>

\* sender: case <-c.stop
SchedStop ==
    /\ ~crashed
    /\ schedPc = "select"
    /\ stopChan > 0
    /\ stopChan' = stopChan - 1
    /\ schedMode' = "stop"
    /\ schedPc' = "drain"
    /\ stopLog' = <<>>
    /\ UNCHANGED <<calls, sendq, metrics, mtx, aggPc, aggCur, schedCur,
                   buf, resp, flushErr, posts, stoppedChan,
                   stopPc, crashed>>
    /\ UNCHANGED <<snapTotal, ctor, lastOp>>

\* flushInputChannel: select { case metric := <-c.input: ...; default: return }
DrainPoll ==
    /\ ~crashed
    /\ schedPc = "drain"
    /\ IF sendq # <<>>
       THEN /\ schedCur' = Head(sendq)
            /\ sendq' = Tail(sendq)
            /\ calls' = [calls EXCEPT ![Head(sendq)].st = "taken"]
            /\ schedPc' = "drainLock"
            /\ UNCHANGED stopLog
       ELSE /\ schedPc' = "flushLock"
            /\ stopLog' = Append(stopLog, "drain")
            /\ UNCHANGED <<calls, sendq, schedCur>>
    /\ UNCHANGED <<metrics, mtx, aggPc, aggCur, schedMode,
                   buf, resp, flushErr, posts, stopChan, stoppedChan,
                   stopPc, crashed>>
    /\ UNCHANGED <<snapTotal, ctor, lastOp>>

\* flushInputChannel -> handleMetricWithValue: c.m.Lock()
DrainLock ==
    /\ ~crashed
    /\ schedPc = "drainLock"
    /\ mtx = "free"
    /\ mtx' = "sched"
    /\ schedPc' = "drainCrit"
    /\ UNCHANGED <<calls, sendq, metrics, aggPc, aggCur, schedMode, schedCur,
                   buf, resp, flushErr, posts, stopChan, stoppedChan,
                   stopPc, stopLog, crashed>>
    /\ UNCHANGED <<snapTotal, ctor, lastOp>>

\* flushInputChannel -> handleMetricWithValue: the switch and the deferred Unlock.
DrainMerge ==
    /\ ~crashed
    /\ schedPc = "drainCrit"
    /\ LET r == handleMetricWithValue(metrics, calls[schedCur].ev)
       IN  IF r.panic
           THEN /\ crashed' = TRUE
                /\ UNCHANGED <<calls, metrics, mtx, schedPc, schedCur>>
           ELSE /\ metrics' = r.metrics
                /\ calls' = [calls EXCEPT ![schedCur].st = "merged"]
                /\ mtx' = "free"
                /\ schedPc' = "drain"
                /\ schedCur' = 0
                /\ UNCHANGED crashed
    /\ UNCHANGED <<sendq, aggPc, aggCur, schedMode,
                   buf, resp, flushErr, posts, stopChan, stoppedChan,
                   stopPc, stopLog>>
    /\ UNCHANGED <<snapTotal, ctor, lastOp>>

\* flush: c.m.Lock()
FlushLock ==
    /\ ~crashed
    /\ schedPc = "flushLock"
    /\ mtx = "free"
    /\ mtx' = "sched"
    /\ schedPc' = "flushCrit"
    /\ UNCHANGED <<calls, sendq, metrics, aggPc, aggCur, schedMode, schedCur,
                   buf, resp, flushErr, posts, stopChan, stoppedChan,
                   stopPc, stopLog, crashed>>
    /\ UNCHANGED <<snapTotal, ctor, lastOp>>

\* The lines of a payload: its elements up to each newline.
RECURSIVE Lines(_)
Lines(b) ==
    IF b = <<>> THEN <<>>
    ELSE LET n == CHOOSE i \in 1..(Len(b) + 1) :
                      /\ i = Len(b) + 1 \/ b[i] = "\n"
                      /\ \A j \in 1..(i - 1) : b[j] # "\n"
         IN  IF n > Len(b) THEN <<b>>
             ELSE <<SubSeq(b, 1, n - 1)>> \o Lines(SubSeq(b, n + 1, Len(b)))

\* The Sum values a snapshot of tbl adds to the totals sent so far.
AddSnapshot(tot, tbl) ==
    [k \in DOMAIN tot |->
        IF k \in DOMAIN tbl /\ tbl[k].Sum # NilPtr
        THEN tot[k] + Deref(tbl[k].Sum).Value
        ELSE tot[k]]

\* The calls whose merged events a snapshot taken now carries.
MarkFlushed(cs) ==
    [i \in 1..Len(cs) |->
        IF cs[i].st = "merged" THEN [cs[i] EXCEPT !.st = "flushed"] ELSE cs[i]]

\* A faulty FlushSnapshot: no emptiness check, an empty table is serialized and sent.
FlushSnapshotUnchecked ==
    /\ ~crashed
    /\ schedPc = "flushCrit"
    /\ \E order \in RangeOrders(metrics) : buf' = formatMetricsForFlush(metrics, order)
    /\ snapTotal' = AddSnapshot(snapTotal, metrics)
    /\ metrics' = Reset(metrics)
    /\ calls' = MarkFlushed(calls)
    /\ schedPc' = "post"
    /\ mtx' = "free"
    /\ UNCHANGED <<sendq, aggPc, aggCur, schedMode, schedCur, flushErr,
                   resp, posts, stopChan, stoppedChan,
                   stopPc, stopLog, crashed>>
    /\ UNCHANGED <<ctor, lastOp>>

\* A faulty FlushSnapshot: the lock is kept for the transport call.
FlushSnapshotKeepsLock ==
    /\ ~crashed
    /\ schedPc = "flushCrit"
    /\ IF Cardinality(DOMAIN metrics) = 0
       THEN /\ flushErr' = ErrNoMetrics
            /\ schedPc' = "flushRet"
            /\ mtx' = "free"
            /\ UNCHANGED <<calls, metrics, buf, snapTotal>>
       ELSE /\ \E order \in RangeOrders(metrics) :
                  buf' = formatMetricsForFlush(metrics, order)
            /\ snapTotal' = AddSnapshot(snapTotal, metrics)
            /\ metrics' = Reset(metrics)
            /\ calls' = MarkFlushed(calls)
            /\ schedPc' = "post"
            /\ UNCHANGED <<flushErr, mtx>>
    /\ UNCHANGED <<sendq, aggPc, aggCur, schedMode, schedCur,
                   resp, posts, stopChan, stoppedChan,
                   stopPc, stopLog, crashed>>
    /\ UNCHANGED <<ctor, lastOp>>

\* flush under the lock: the emptiness check, or buffer, formatMetricsForFlush,
\* Reset; then c.m.Unlock().
FlushSnapshot ==
    /\ ~crashed
    /\ schedPc = "flushCrit"
    /\ IF Cardinality(DOMAIN metrics) = 0
       THEN /\ flushErr' = ErrNoMetrics
            /\ schedPc' = "flushRet"
            /\ UNCHANGED <<calls, metrics, buf, snapTotal>>
       ELSE /\ \E order \in RangeOrders(metrics) :
                  buf' = formatMetricsForFlush(metrics, order)
            /\ snapTotal' = AddSnapshot(snapTotal, metrics)
            /\ metrics' = Reset(metrics)
            /\ calls' = MarkFlushed(calls)
            /\ schedPc' = "post"
            /\ UNCHANGED flushErr
    /\ mtx' = "free"
    /\ UNCHANGED <<sendq, aggPc, aggCur, schedMode, schedCur,
                   resp, posts, stopChan, stoppedChan,
                   stopPc, stopLog, crashed>>
    /\ UNCHANGED <<ctor, lastOp>>

\* flush: how the answer of c.http.Post is turned into the returned error.
Classify(o) ==
    IF o.err THEN ErrTransport
    ELSE IF o.code > 299 THEN ErrStatus(o.code)
    ELSE NoErr

\* A faulty AfterPost: a failed send puts the lines of the payload back.
AfterPostRequeues(tbl, payload, o) ==
    IF o.err \/ o.code > 299
    THEN [k \in {Metric(Lines(payload)[i][1], Lines(payload)[i][Len(Lines(payload)[i])]) :
                    i \in 1..Len(Lines(payload))} |-> Value(NilPtr, Ptr(Sum(0)))] @@ tbl
    ELSE tbl

\* flush: what is done to the table once the transport has answered (nothing).
AfterPost(tbl, payload, o) == tbl

\* flush: c.http.Post(c.hostURL, "text/plain", body), outside the lock, and the
\* classification of its answer.
FlushPost ==
    /\ ~crashed
    /\ schedPc = "post"
    /\ \E o \in Outcomes :
          /\ resp' = o
          /\ flushErr' = Classify(o)
          /\ metrics' = AfterPost(metrics, buf, o)
    /\ posts' = posts + 1
    /\ schedPc' = "flushRet"
    /\ UNCHANGED <<calls, sendq, mtx, aggPc, aggCur, schedMode, schedCur,
                   buf, stopChan, stoppedChan,
                   stopPc, stopLog, crashed>>
    /\ UNCHANGED <<snapTotal, ctor, lastOp>>

\* A faulty FlushReturn: a tick's flush that returned an error ends the scheduler.
FlushReturnQuitsOnError ==
    /\ ~crashed
    /\ schedPc = "flushRet"
    /\ flushErr' = NoResult
    /\ resp' = NoResp
    /\ buf' = <<>>
    /\ posts' = 0
    /\ IF schedMode = "stop"
       THEN /\ schedPc' = "signal"
            /\ stopLog' = Append(stopLog, "flush")
            /\ UNCHANGED schedMode
       ELSE /\ schedPc' = IF flushErr = NoErr THEN "select" ELSE "off"
            /\ schedMode' = "none"
            /\ UNCHANGED stopLog
    /\ UNCHANGED <<calls, sendq, metrics, mtx, aggPc, aggCur, schedCur,
                   stopChan, stoppedChan,
                   stopPc, crashed>>
    /\ UNCHANGED <<snapTotal, ctor, lastOp>>

\* sender: c.flush() returned; its error is dropped.
FlushReturn ==
    /\ ~crashed
    /\ schedPc = "flushRet"
    /\ flushErr' = NoResult
    /\ resp' = NoResp
    /\ buf' = <<>>
    /\ posts' = 0
    /\ IF schedMode = "stop"
       THEN /\ schedPc' = "signal"
            /\ stopLog' = Append(stopLog, "flush")
            /\ UNCHANGED schedMode
       ELSE /\ schedPc' = "select"
            /\ schedMode' = "none"
            /\ UNCHANGED stopLog
    /\ UNCHANGED <<calls, sendq, metrics, mtx, aggPc, aggCur, schedCur,
                   stopChan, stoppedChan,
                   stopPc, crashed>>
    /\ UNCHANGED <<snapTotal, ctor, lastOp>>

\* sender: c.stopped <- true, then the loop goes round again.
SchedSignal ==
    /\ ~crashed
    /\ schedPc = "signal"
    /\ stoppedChan = 0
    /\ stoppedChan' = 1
    /\ stopLog' = Append(stopLog, "signal")
    /\ schedPc' = "select"
    /\ schedMode' = "none"
    /\ UNCHANGED <<calls, sendq, metrics, mtx, aggPc, aggCur, schedCur,
                   buf, resp, flushErr, posts, stopChan,
                   stopPc, crashed>>
    /\ UNCHANGED <<snapTotal, ctor, lastOp>>

\* ------------------------------------------------------------ Stop()
\* Stop: c.stop <- true
StopCall ==
    /\ ~crashed
    /\ stopPc = "idle"
    /\ stopChan = 0
    /\ stopChan' = 1
    /\ stopPc' = "waiting"
    /\ calls' = [i \in 1..Len(calls) |-> [calls[i] EXCEPT !.pre = TRUE]]
    /\ UNCHANGED <<sendq, metrics, mtx, aggPc, aggCur, schedPc, schedMode, schedCur,
                   buf, resp, flushErr, posts, stoppedChan,
                   stopLog, crashed>>
    /\ UNCHANGED <<snapTotal, ctor, lastOp>>

\* A faulty StopReturn: Stop() returns without waiting for c.stopped.
StopReturnNoWait ==
    /\ ~crashed
    /\ stopPc = "waiting"
    /\ stopPc' = "idle"
    /\ calls' = [i \in 1..Len(calls) |-> [calls[i] EXCEPT !.pre = FALSE]]
    /\ UNCHANGED <<sendq, metrics, mtx, aggPc, aggCur, schedPc, schedMode, schedCur,
                   buf, resp, flushErr, posts, stopChan, stoppedChan,
                   stopLog, crashed>>
    /\ UNCHANGED <<snapTotal, ctor, lastOp>>

\* Stop: <-c.stopped, then return.
StopReturn ==
    /\ ~crashed
    /\ stopPc = "waiting"
    /\ stoppedChan > 0
    /\ stoppedChan' = stoppedChan - 1
    /\ stopPc' = "idle"
    /\ calls' = [i \in 1..Len(calls) |-> [calls[i] EXCEPT !.pre = FALSE]]
    /\ UNCHANGED <<sendq, metrics, mtx, aggPc, aggCur, schedPc, schedMode, schedCur,
                   buf, resp, flushErr, posts, stopChan,
                   stopLog, crashed>>
    /\ UNCHANGED <<snapTotal, ctor, lastOp>>

Next ==
    \/ Count
    \/ Timer
    \/ AverageTimer
    \/ SendPark
    \/ AggRecv
    \/ AggLock
    \/ AggMerge
    \/ SchedTick
    \/ SchedStop
    \/ DrainPoll
    \/ DrainLock
    \/ DrainMerge
    \/ FlushLock
    \/ FlushSnapshot
    \/ FlushPost
    \/ FlushReturn
    \/ SchedSignal
    \/ StopCall
    \/ StopReturn

Spec == Init /\ [][Next]_vars

\* The scheduling the Go runtime gives the tasks: a runnable goroutine runs (weak
\* fairness of its steps), and a goroutine waiting for a sync.Mutex that is released
\* again and again gets it (strong fairness: the mutex hands over to a starved waiter).
Fairness ==
    /\ WF_vars(SendPark)
    /\ WF_vars(AggRecv)
    /\ SF_vars(AggLock)
    /\ WF_vars(AggMerge)
    /\ WF_vars(DrainPoll)
    /\ SF_vars(DrainLock)
    /\ WF_vars(DrainMerge)
    /\ SF_vars(FlushLock)
    /\ WF_vars(FlushSnapshot)

FairSpec == Spec /\ Fairness

\* The scheduling a returning Stop() needs on top of Fairness: a select that has the
\* stop case ready again and again takes it (Go picks among the ready cases at
\* random), the transport answers every Post, and the scheduler and the caller of
\* Stop() run when they can.
StopFairness ==
    /\ SF_vars(SchedStop)
    /\ WF_vars(FlushPost)
    /\ WF_vars(FlushReturn)
    /\ WF_vars(SchedSignal)
    /\ WF_vars(StopReturn)

FairStopSpec == Spec /\ Fairness /\ StopFairness

\* ------------------------------------------------------------ Reset() by the caller
\* Reset() is exported and takes no lock: the application may call it on a running
\* client. It deletes the keys of c.metrics whatever the goroutines are doing; when
\* another task is inside its critical section the two race on the map, and the Go
\* runtime either lets the deletes through or ends the process ("concurrent map
\* read and map write").
ResetCall ==
    /\ ~crashed
    /\ \/ /\ metrics' = Reset(metrics)
          /\ calls' = [i \in 1..Len(calls) |->
                          IF calls[i].st = "merged" THEN [calls[i] EXCEPT !.st = "reset"]
                          ELSE calls[i]]
          /\ UNCHANGED crashed
       \/ /\ mtx # "free"
          /\ crashed' = TRUE
          /\ UNCHANGED <<metrics, calls>>
    /\ UNCHANGED <<sendq, mtx, aggPc, aggCur, schedPc, schedMode,
                   schedCur, buf, resp, flushErr, posts, stopChan, stoppedChan,
                   stopPc, stopLog, snapTotal, ctor, lastOp>>

SpecReset == Init /\ [][Next \/ ResetCall]_vars

\* ------------------------------------------------------------ sequential merges
\* handleMetricWithValue called directly, one event after the other, on a client
\* whose goroutines do not run (as client_test.go calls it).
Events ==
    {send(name, value, "c", "sum") : name \in Names, value \in Amounts}
    \cup {send(name, value, "ms", "sum") : name \in Names, value \in Amounts}
    \cup {send(name, value, "ms", "avg") : name \in Names, value \in Amounts}

MergeDirect ==
    /\ ~crashed
    /\ Len(calls) < MaxMerges
    /\ \E ev \in Events :
          LET r == handleMetricWithValue(metrics, ev)
          IN  IF r.panic
              THEN /\ crashed' = TRUE
                   /\ calls' = Append(calls, [NewCall("handleMetricWithValue",
                                                      ev.Metric[1], ev.Amount, ev)
                                              EXCEPT !.st = "taken"])
                   /\ UNCHANGED metrics
              ELSE /\ metrics' = r.metrics
                   /\ calls' = Append(calls, [NewCall("handleMetricWithValue",
                                                      ev.Metric[1], ev.Amount, ev)
                                              EXCEPT !.st = "merged"])
                   /\ UNCHANGED crashed
    /\ lastOp' = "handleMetricWithValue"
    /\ UNCHANGED <<sendq, mtx, aggPc, aggCur, schedPc, schedMode, schedCur,
                   buf, resp, flushErr, posts, stopChan, stoppedChan,
                   stopPc, stopLog, snapTotal, ctor>>

SpecMerge == Init /\ [][MergeDirect]_vars

\* ------------------------------------------------------------ direct calls
\* The exported and unexported methods called directly, one after the other, on a
\* client whose goroutines do not run (as client_test.go calls them).

\* formatMetricsForFlush(buf) on a fresh buffer.
FormatDirect ==
    /\ ~crashed
    /\ \E order \in RangeOrders(metrics) : buf' = formatMetricsForFlush(metrics, order)
    /\ lastOp' = "formatMetricsForFlush"
    /\ UNCHANGED <<calls, sendq, metrics, mtx, aggPc, aggCur, schedPc, schedMode,
                   schedCur, resp, flushErr, posts, stopChan, stoppedChan,
                   stopPc, stopLog, crashed, snapTotal, ctor>>

\* Reset(); the events merged so far are dropped with the table ("reset").
ResetDirect ==
    /\ ~crashed
    /\ metrics' = Reset(metrics)
    /\ calls' = [i \in 1..Len(calls) |->
                    IF calls[i].st = "merged" THEN [calls[i] EXCEPT !.st = "reset"]
                    ELSE calls[i]]
    /\ lastOp' = "Reset"
    /\ UNCHANGED <<sendq, mtx, aggPc, aggCur, schedPc, schedMode,
                   schedCur, buf, resp, flushErr, posts, stopChan, stoppedChan,
                   stopPc, stopLog, crashed, snapTotal, ctor>>

SpecDirect == Init /\ [][MergeDirect \/ FormatDirect \/ ResetDirect]_vars

\* ------------------------------------------------------------ direct flushes
\* c.bufferPool.Get(): a buffer the pool holds, as it was put back, or, when the pool
\* is empty or has dropped its buffers (sync.Pool may at any time), a new empty one.
PoolGet(p) == p \cup {<<>>}

\* A faulty BufferReset: the buffer is used as it comes out of the pool.
BufferKept(b) == b

\* buf.Reset(): the buffer is emptied.
BufferReset(b) == <<>>

\* What c.http.Post leaves unread in the buffer: nothing once the body was sent, all
\* of it when the transport failed before sending.
Unread(payload, o) == IF o.err THEN {payload, <<>>} ELSE {<<>>}

\* flush() called directly, from the lock to the return (as client_test.go calls it).
FlushDirect ==
    /\ ~crashed
    /\ lastOp' = "flush"
    /\ IF Cardinality(DOMAIN metrics) = 0
       THEN /\ flushErr' = ErrNoMetrics
            /\ resp' = NoResp
            /\ posts' = 0
            /\ UNCHANGED <<calls, metrics, buf, snapTotal, pool>>
       ELSE \E got \in PoolGet(pool), order \in RangeOrders(metrics), o \in Outcomes :
               LET payload == BufferReset(got) \o formatMetricsForFlush(metrics, order)
               IN  /\ buf' = payload
                   /\ snapTotal' = AddSnapshot(snapTotal, metrics)
                   /\ metrics' = Reset(metrics)
                   /\ calls' = MarkFlushed(calls)
                   /\ resp' = o
                   /\ posts' = 1
                   /\ flushErr' = Classify(o)
                   /\ \E rest \in Unread(payload, o) : pool' = {rest}
    /\ UNCHANGED <<sendq, mtx, aggPc, aggCur, schedPc, schedMode, schedCur,
                   stopChan, stoppedChan, stopPc, stopLog, crashed,
                   cl, interval, newErr, newArg>>

SpecFlush == Init /\ [][MergeDirect \/ FlushDirect]_vars

\* ------------------------------------------------------------ properties
\* The calls in state st whose event has key k and reducer kind action.
CallsOn(k, action, st) ==
    {i \in 1..Len(calls) :
        calls[i].ev.Metric = k /\ calls[i].ev.Action = action /\ calls[i].st = st}

RECURSIVE AmountSum(_)
AmountSum(is) ==
    IF is = {} THEN 0
    ELSE LET i == CHOOSE j \in is : TRUE
         IN  calls[i].ev.Amount + AmountSum(is \ {i})

DrainFlushSignal == <<"drain", "flush", "signal">>

\* C1: for every key, once Sum events have been merged into it with no flush in
\* between, the table holds a Sum entry for the key whose Value is the arithmetic
\* sum of the amounts merged.
C1_SumIsArithmeticSum ==
    \A k \in Keys :
        CallsOn(k, "sum", "merged") # {} =>
            /\ k \in DOMAIN metrics
            /\ metrics[k].Sum # NilPtr
            /\ Deref(metrics[k].Sum).Value = AmountSum(CallsOn(k, "sum", "merged"))

\* C1 witness: three Count events merged into ("x","c"), amounts 1, 1 and 4, Sum 6.
C1_Witness ==
    /\ Cardinality(CallsOn(Metric("x", "c"), "sum", "merged")) = 3
    /\ AmountSum(CallsOn(Metric("x", "c"), "sum", "merged")) = 6
    /\ Deref(metrics[Metric("x", "c")].Sum).Value = 6

\* The Count("x", _) calls made so far.
CountX == {i \in 1..Len(calls) : calls[i].ev = send("x", calls[i].ev.Amount, "c", "sum")}

\* C2: when every Count("x", _) call made so far has been merged and none has been
\* flushed, the Sum of ("x","c") is the sum of their amounts: N when N producers
\* each counted 1, under every interleaving of producers, aggregator and scheduler.
C2_ConcurrentCountsAllCounted ==
    (CountX # {} /\ \A i \in CountX : calls[i].st = "merged") =>
        /\ Metric("x", "c") \in DOMAIN metrics
        /\ metrics[Metric("x", "c")].Sum # NilPtr
        /\ Deref(metrics[Metric("x", "c")].Sum).Value = AmountSum(CountX)
        /\ (\A i \in CountX : calls[i].ev.Amount = 1) =>
               Deref(metrics[Metric("x", "c")].Sum).Value = Cardinality(CountX)

\* C2 witness: MaxCalls producers called Count("x", 1), all merged, Sum = MaxCalls.
C2_Witness ==
    /\ Cardinality(CountX) = MaxCalls
    /\ \A i \in CountX : calls[i].st = "merged" /\ calls[i].ev.Amount = 1
    /\ Deref(metrics[Metric("x", "c")].Sum).Value = MaxCalls

\* C3 (as claimed): every Average entry stores Avg = Total / Count.
C3_AvgIsTotalOverCount ==
    \A k \in DOMAIN metrics :
        metrics[k].Avg # NilPtr =>
            Deref(metrics[k].Avg).Avg =
                GoDiv(Deref(metrics[k].Avg).Total, Deref(metrics[k].Avg).Count)

\* An event is being merged into an entry created under the other reducer kind.
Conflict(i) ==
    LET ev == calls[i].ev
    IN  /\ ev.Metric \in DOMAIN metrics
        /\ \/ ev.Action = "sum" /\ metrics[ev.Metric].Sum = NilPtr
           \/ ev.Action = "avg" /\ metrics[ev.Metric].Avg = NilPtr

HandlingConflict ==
    \/ aggPc = "crit" /\ Conflict(aggCur)
    \/ schedPc = "drainCrit" /\ Conflict(schedCur)

\* C4 (as claimed): while an event of the other reducer kind is handled, the entry
\* keeps its kind and value and the process keeps running.
C4_ConflictDiscarded == [][HandlingConflict => (metrics' = metrics /\ ~crashed')]_vars

\* The scheduler has taken the snapshot of the final flush of a stop (or found
\* the table empty).
FinalFlushTaken == schedMode = "stop" /\ schedPc \in {"post", "flushRet", "signal"}

\* C5 (as claimed): once the final flush of a Stop() has taken its snapshot, every
\* event of a producer call that returned before that Stop() began is in a snapshot.
C5_FinalFlushHasAllEvents ==
    FinalFlushTaken => \A i \in 1..Len(calls) : calls[i].pre => calls[i].st = "flushed"

\* C6: Stop() returns only after the scheduler has drained the queue, completed the
\* final flush and signalled completion, in this order, for the stop it received.
C6_StopReturnsAfterDrainFlushSignal ==
    [][(stopPc = "waiting" /\ stopPc' = "idle") => stopLog = DrainFlushSignal]_vars

\* C6 witness: a Stop() has returned after a final flush that carried an event.
C6_Witness ==
    /\ stopPc = "idle"
    /\ stopLog = DrainFlushSignal
    /\ \E i \in 1..Len(calls) : calls[i].st = "flushed"

\* C7: flush() that finds the table empty returns ErrNoMetrics, makes no transport
\* call and leaves the table empty.
C7_EmptyFlushSendsNothing ==
    /\ [][(schedPc = "flushCrit" /\ DOMAIN metrics = {} /\ schedPc' # schedPc) =>
            (/\ schedPc' = "flushRet"
             /\ flushErr' = ErrNoMetrics
             /\ posts' = 0
             /\ DOMAIN metrics' = {})]_vars
    /\ [](flushErr = ErrNoMetrics => posts = 0)

\* C7 witness: a flush of an empty table is returning ErrNoMetrics after events
\* were flushed before.
C7_Witness ==
    /\ schedPc = "flushRet"
    /\ flushErr = ErrNoMetrics
    /\ posts = 0
    /\ DOMAIN metrics = {}
    /\ \E i \in 1..Len(calls) : calls[i].st = "flushed"

\* C8 (as claimed): when flush() returns success (the collector answered 2xx) the
\* table is empty.
C8_EmptyAfterSuccessfulFlush ==
    (schedPc = "flushRet" /\ flushErr = NoErr /\ resp.code \in 200..299) =>
        DOMAIN metrics = {}

\* C8 (amended): when flush() returns success the table holds exactly the keys of
\* the events merged after its snapshot; with none merged it is empty (and the
\* next flush finds it empty).
C8_OnlyLaterMergesAfterSuccessfulFlush ==
    (schedPc = "flushRet" /\ flushErr = NoErr) =>
        DOMAIN metrics = {calls[i].ev.Metric : i \in {j \in 1..Len(calls) : calls[j].st = "merged"}}

\* C8 witness: a successful flush is returning, its events are flushed, and the
\* table is empty.
C8_Witness ==
    /\ schedPc = "flushRet"
    /\ flushErr = NoErr
    /\ resp.code = 200
    /\ DOMAIN metrics = {}
    /\ \E i \in 1..Len(calls) : calls[i].st = "flushed"

\* C9: the transport call of a non-empty flush is made once; whatever it answers,
\* the table is left as it is (the snapshot is not put back), and an event that
\* went into a snapshot never goes into another.
C9_NoRequeueNoRetry ==
    /\ [][(schedPc = "post" /\ schedPc' # schedPc) =>
            (metrics' = metrics /\ posts' = 1 /\ schedPc' = "flushRet")]_vars
    /\ [][\A i \in 1..Len(calls) : calls[i].st = "flushed" => calls'[i].st = "flushed"]_vars
    /\ [](flushErr.kind \in {"transport", "status", "nil"} => posts = 1)

\* C9 witness: a flush whose send failed is returning; its events stay flushed and
\* the table is empty.
C9_Witness ==
    /\ schedPc = "flushRet"
    /\ flushErr.kind \in {"transport", "status"}
    /\ posts = 1
    /\ DOMAIN metrics = {}
    /\ \E i \in 1..Len(calls) : calls[i].st = "flushed"

\* C10 (as claimed): a failed send gives a transport error, a non-2xx status a
\* remote-rejected error carrying the status, anything else success.
C10_OutcomeClassified ==
    (schedPc = "flushRet" /\ posts > 0) =>
        /\ resp.err => flushErr = ErrTransport
        /\ (~resp.err /\ resp.code \notin 200..299) => flushErr = ErrStatus(resp.code)
        /\ (~resp.err /\ resp.code \in 200..299) => flushErr = NoErr

\* C11: a producer call can return in every state of a running process: Count,
\* Timer and AverageTimer are enabled whatever the table lock, the transport call
\* and the aggregator are doing (up to the number of calls the model makes).
C11_ProducerNeverBlocks ==
    (~crashed /\ Len(calls) < MaxCalls) =>
        (ENABLED Count /\ ENABLED Timer /\ ENABLED AverageTimer)

\* The scheduler holds the table lock, the aggregator waits for it with an event in
\* hand, and a producer call can be made and return.
C11_Witness ==
    /\ mtx = "sched"
    /\ aggPc = "lock"
    /\ Len(calls) < MaxCalls
    /\ ENABLED Count

\* C12: under fair scheduling the event of every producer call is eventually merged
\* into the table (by the aggregator or by the drain of a stop).
C12_EveryEventEventuallyMerged ==
    \A i \in 1..MaxCalls :
        (Len(calls) >= i) ~> (Len(calls) >= i /\ calls[i].st \in {"merged", "flushed"})

\* What does hold: every event is eventually merged unless the process has panicked.
MergedOrCrashed ==
    \A i \in 1..MaxCalls :
        (Len(calls) >= i) ~>
            (crashed \/ (Len(calls) >= i /\ calls[i].st \in {"merged", "flushed"}))

\* C13: the event of a call carries the name and the amount of the call unchanged,
\* with unit "c" and kind "sum" for Count, unit "ms" and kind "sum" for Timer, and
\* unit "ms" and kind "avg" for AverageTimer.
C13_EventCarriesCall ==
    \A i \in 1..Len(calls) :
        LET c == calls[i] IN
        /\ c.ev.Metric[1] = c.name
        /\ c.ev.Amount = c.value
        /\ c.api = "Count" => (c.ev.Metric[2] = "c" /\ c.ev.Action = "sum")
        /\ c.api = "Timer" => (c.ev.Metric[2] = "ms" /\ c.ev.Action = "sum")
        /\ c.api = "AverageTimer" => (c.ev.Metric[2] = "ms" /\ c.ev.Action = "avg")

\* The event of a Timer call and the event of a Count call have both been merged.
C13_Witness ==
    /\ \E i \in 1..Len(calls) : calls[i].api = "Timer" /\ calls[i].st = "merged"
    /\ \E i \in 1..Len(calls) : calls[i].api = "Count" /\ calls[i].st = "merged"

\* C14: NewClient called with an interval below 60 gives a client whose flush
\* interval is 60 seconds; an interval of 60 or more is the client's interval as given.
C14_IntervalFloor ==
    lastOp = "NewClient" =>
        /\ Less(newArg, Big(0, 60)) => (cl = "client" /\ interval = Big(0, 60))
        /\ (~Less(newArg, Big(0, 60)) /\ cl = "client") => interval = newArg

\* NewClient was called with 59 seconds and returned a client.
C14_Witness ==
    lastOp = "NewClient" /\ newArg = Big(0, 59) /\ cl = "client"

\* C15: NewClient called with an interval that no duration holds returns an error
\* and no client, and starts neither the scheduler nor the aggregator.
C15_BadIntervalNoClient ==
    (lastOp = "NewClient" /\ (newErr \/ Less(Big(92, 23372036), newArg))) =>
        /\ newErr
        /\ cl = "nil"
        /\ schedPc = "off"
        /\ aggPc = "off"

\* NewClient was called with 1<<48 seconds and returned an error.
C15_Witness ==
    lastOp = "NewClient" /\ newArg = Big(2814749, 76710656) /\ newErr

\* What a line name:value|unit says, read back from its elements.
ParseLine(l) ==
    IF Len(l) < 5 \/ l[2] # ":" \/ l[Len(l) - 1] # "|"
    THEN [name |-> "", value |-> -1, unit |-> ""]
    ELSE LET n == LeadingInt(SubSeq(l, 3, Len(l) - 2), Big(0, 0))
         IN  [name |-> l[1],
              value |-> IF n.rest = <<>> /\ n.value.hi = 0 THEN n.value.lo ELSE -1,
              unit |-> l[Len(l)]]

\* What the line of entry k of tbl has to say: the stored Sum, or the stored Avg.
EntryLine(tbl, k) ==
    [name |-> k[1],
     value |-> IF tbl[k].Avg # NilPtr THEN Deref(tbl[k].Avg).Avg ELSE Deref(tbl[k].Sum).Value,
     unit |-> k[2]]

\* C16: serialization writes exactly one newline-terminated line name:value|unit
\* per table entry, the value being the stored Sum or the stored Avg; whatever the
\* iteration order, the lines are those of the table's entries.
C16_OneLinePerEntry ==
    lastOp = "formatMetricsForFlush" =>
        /\ buf # <<>> => buf[Len(buf)] = "\n"
        /\ Len(Lines(buf)) = Cardinality(DOMAIN metrics)
        /\ {ParseLine(Lines(buf)[i]) : i \in 1..Len(Lines(buf))}
               = {EntryLine(metrics, k) : k \in DOMAIN metrics}

\* A table with a Sum entry and an Average entry whose Avg differs from its Total
\* was serialized, the line of the "ms" key first.
C16_Witness ==
    /\ lastOp = "formatMetricsForFlush"
    /\ Cardinality(DOMAIN metrics) = 2
    /\ \E k \in DOMAIN metrics :
          metrics[k].Avg # NilPtr /\ Deref(metrics[k].Avg).Avg # Deref(metrics[k].Avg).Total
    /\ Lines(buf)[1][Len(Lines(buf)[1])] = "ms"

\* C17: after Reset() the table is empty, whatever it held before, an empty table
\* included.
C17_ResetEmptiesTable ==
    lastOp = "Reset" => DOMAIN metrics = {}

\* Reset() was called on a table that held merged events.
C17_Witness ==
    /\ lastOp = "Reset"
    /\ \E i \in 1..Len(calls) : calls[i].st = "reset"

\* C18: Stopped is terminal: once the scheduler has signalled the completion of a
\* stop, it takes no further step (no timer tick, no drain, no flush).
C18_StoppedIsTerminal ==
    [][stopLog = DrainFlushSignal => schedPc' = schedPc]_vars

\* C19: the events of two calls made one after the other are merged in the order of
\* the calls: a later call's event is merged only when every earlier call's is.
\* (calls is the order in which the calls were made and returned; every run of the
\* model is also a run in which one producer made all of them.)
C19_MergedInCallOrder ==
    \A i, j \in 1..Len(calls) :
        (i < j /\ calls[j].st \in {"merged", "flushed"})
            => calls[i].st \in {"merged", "flushed"}

\* The amounts of the sum events with key k that were merged so far.
MergedSoFar(k) ==
    AmountSum({i \in 1..Len(calls) :
                  /\ calls[i].ev.Metric = k
                  /\ calls[i].ev.Action = "sum"
                  /\ calls[i].st \in {"merged", "flushed"}})

\* C20: for every Sum key, the amounts of all events merged so far add up to the
\* key's values in all snapshots taken so far plus its value in the table now: no
\* merged event is in two snapshots, in a snapshot and the table, or in neither.
C20_MergesAtomicWithSnapshots ==
    \A k \in Keys :
        MergedSoFar(k) = snapTotal[k]
                         + (IF k \in DOMAIN metrics /\ metrics[k].Sum # NilPtr
                            THEN Deref(metrics[k].Sum).Value ELSE 0)

\* One event of key ("x","c") is in a snapshot, a later one is in the table.
C20_Witness ==
    /\ snapTotal[Metric("x", "c")] > 0
    /\ Metric("x", "c") \in DOMAIN metrics
    /\ \E i \in 1..Len(calls) : calls[i].st = "flushed"
    /\ \E i \in 1..Len(calls) : calls[i].st = "merged"

\* C21: every read and write of the table happens with the table lock held by the
\* task that reads or writes: the tasks are inside their critical sections only as
\* the holder of the lock, and the table changes only in a step of the holder.
C21_TableOnlyUnderLock ==
    [][/\ aggPc = "crit" => mtx = "agg"
       /\ schedPc \in {"drainCrit", "flushCrit"} => mtx = "sched"
       /\ metrics' # metrics =>
             \/ mtx = "agg" /\ aggPc = "crit" /\ aggPc' = "recv"
             \/ mtx = "sched" /\ schedPc \in {"drainCrit", "flushCrit"}
                              /\ schedPc' # schedPc]_vars

\* C22: while a flush's transport call is in progress the scheduler does not hold
\* the table lock: an aggregator waiting for the lock can take it, an aggregator in
\* its critical section can merge, and a producer call can be made.
C22_NoLockDuringPost ==
    schedPc = "post" =>
        /\ mtx # "sched"
        /\ (aggPc = "lock" /\ ~crashed) => ENABLED AggLock
        /\ (aggPc = "crit" /\ ~crashed) => ENABLED AggMerge
        /\ (Len(calls) < MaxCalls /\ ~crashed) => ENABLED Count

\* The transport call of a flush is in progress and the aggregator has merged an
\* event since the snapshot of that flush was taken.
C22_Witness ==
    /\ schedPc = "post"
    /\ \E i \in 1..Len(calls) : calls[i].st = "flushed"
    /\ \E i \in 1..Len(calls) : calls[i].st = "merged"
    /\ DOMAIN metrics # {}

\* C23: a timer tick triggers one flush and leaves the scheduler running whatever
\* the flush returns: the flush of a tick sends at most once, the scheduler is back
\* at its select when the flush has returned, and at its select the scheduler can
\* take a timer tick and, if a stop request is pending, the stop request.
C23_TickLeavesSchedulerRunning ==
    /\ [][(schedPc = "flushRet" /\ schedMode = "tick" /\ schedPc' # schedPc)
              => (posts <= 1 /\ schedPc' = "select" /\ schedMode' = "none")]_vars
    /\ []((schedPc = "select" /\ ~crashed) =>
              (ENABLED SchedTick /\ (stopChan > 0 => ENABLED SchedStop)))
    /\ [](schedPc # "off")

\* The flush of a timer tick has failed in the transport and is about to return.
C23_Witness ==
    /\ schedPc = "flushRet"
    /\ schedMode = "tick"
    /\ flushErr = ErrTransport

\* C24: once a stop request is pending, the scheduler starts no timer-triggered
\* flush before handling it: with a stop request in c.stop, the step the scheduler
\* takes from its select is the stop case.
C24_StopBeforeFurtherTicks ==
    [][(stopChan > 0 /\ schedPc = "select" /\ schedPc' # schedPc)
          => (schedPc' = "drain" /\ schedMode' = "stop")]_vars

\* C25: under fair scheduling, with finitely many producer calls and a transport
\* that always answers, every Stop() call eventually returns.
C25_StopEventuallyReturns ==
    (stopPc = "waiting") ~> (stopPc = "idle")

\* What does hold: a Stop() call eventually returns unless the process has panicked.
StopReturnsOrCrashed ==
    (stopPc = "waiting") ~> (stopPc = "idle" \/ crashed)

\* C26: for every Average entry, Count is the number of events merged into it since
\* it was created and Total is the sum of their amounts.
C26_CountAndTotal ==
    \A k \in DOMAIN metrics :
        metrics[k].Avg # NilPtr =>
            /\ Deref(metrics[k].Avg).Count = Cardinality(CallsOn(k, "avg", "merged"))
            /\ Deref(metrics[k].Avg).Total = AmountSum(CallsOn(k, "avg", "merged"))

\* Two events, amounts 1 and MaxAmount, were merged into an Average entry created
\* after a Reset().
C26_Witness ==
    /\ Metric("x", "ms") \in DOMAIN metrics
    /\ metrics[Metric("x", "ms")].Avg # NilPtr
    /\ Deref(metrics[Metric("x", "ms")].Avg).Count = 2
    /\ Deref(metrics[Metric("x", "ms")].Avg).Total = MaxAmount + 1
    /\ \E i \in 1..Len(calls) : calls[i].st = "reset"

\* The distinct (name, unit) pairs of the events now merged in the table.
MergedKeys ==
    {<<calls[i].name, calls[i].ev.Metric[2]>> :
        i \in {j \in 1..Len(calls) : calls[j].st = "merged"}}

\* C27: merging an event with key (name, unit) creates or updates the entry of that
\* key only and leaves every other entry as it was; the table has one entry per
\* distinct (name, unit) merged, so the same name with another unit has its own entry.
C27_MergeTouchesOnlyItsKey ==
    /\ [][\A i \in 1..Len(calls') :
              (calls'[i].st = "merged" /\ (i > Len(calls) \/ calls[i].st # "merged")) =>
                  /\ DOMAIN metrics' = DOMAIN metrics \cup {<<calls'[i].name, calls'[i].ev.Metric[2]>>}
                  /\ \A k \in DOMAIN metrics :
                        k # <<calls'[i].name, calls'[i].ev.Metric[2]>> => metrics'[k] = metrics[k]]_vars
    /\ [](DOMAIN metrics = MergedKeys)

\* Events of the same name were merged under unit "c" and under unit "ms", the "ms"
\* entry twice: the table has the two entries.
C27_Witness ==
    /\ DOMAIN metrics = {Metric("x", "c"), Metric("x", "ms")}
    /\ Cardinality({i \in 1..Len(calls) :
                        calls[i].st = "merged" /\ calls[i].ev.Metric = Metric("x", "ms")}) = 2

\* C28: a flush that sends takes a buffer from the pool, empties it, and puts it
\* back after the transport call whatever the outcome; the payload sent has exactly
\* the lines of that flush's snapshot, nothing left over from an earlier flush.
C28_BufferEmptiedAndReturned ==
    [][(lastOp' = "flush" /\ flushErr' # ErrNoMetrics) =>
          /\ Cardinality(pool') = 1
          /\ Len(Lines(buf')) = Cardinality(DOMAIN metrics)
          /\ {ParseLine(Lines(buf')[i]) : i \in 1..Len(Lines(buf'))}
                 = {EntryLine(metrics, k) : k \in DOMAIN metrics}]_vars

\* A second flush of key ("x","c") has sent its own snapshot, one Count of 1, after
\* an earlier flush of the same key had used the pool's buffer.
C28_Witness ==
    /\ lastOp = "flush"
    /\ flushErr = NoErr
    /\ buf = FormatLine(Metric("x", "c"), Value(NilPtr, Ptr(Sum(1))))
    /\ snapTotal[Metric("x", "c")] = 2
    /\ pool = {<<>>}

\* The Average that merging the amounts of the calls order[1], order[2], ... in this
\* order into a new entry gives.
RECURSIVE MergedInOrder(_)
MergedInOrder(order) ==
    IF order = <<>> THEN Average(0, 0, 0)
    ELSE AvgMerge(MergedInOrder(SubSeq(order, 1, Len(order) - 1)),
                  calls[order[Len(order)]].ev.Amount)

\* The orders in which the calls of the set is can be taken.
OrdersOf(is) ==
    {o \in [1..Cardinality(is) -> is] :
        \A i, j \in 1..Cardinality(is) : i # j => o[i] # o[j]}

\* C29: the Avg of an Average entry depends only on the amounts merged into it, not
\* on their order: merging the same amounts in any other order gives the stored Avg.
C29_AvgOrderIndependent ==
    \A k \in DOMAIN metrics :
        metrics[k].Avg # NilPtr =>
            \A o \in OrdersOf(CallsOn(k, "avg", "merged")) :
                MergedInOrder(o).Avg = Deref(metrics[k].Avg).Avg

\* A Stop() call is waiting with its request in c.stop after the scheduler has
\* completed an earlier stop.
SecondStopPending ==
    stopPc = "waiting" /\ stopChan = 1 /\ stopLog = DrainFlushSignal

\* C30: a Stop() call made after an earlier Stop() has returned is handled like the
\* first and returns (under fair scheduling, with a transport that always answers).
C30_SecondStopReturns ==
    SecondStopPending ~> (stopPc = "idle")

\* What does hold: the later Stop() call returns unless the process has panicked.
SecondStopReturnsOrCrashed ==
    SecondStopPending ~> (stopPc = "idle" \/ crashed)
====
